---- MODULE Spec2Model ----
(***************************************************************************)
(* The quiz session of static/js/quiz.js as a state machine.               *)
(*                                                                         *)
(* The script keeps six module-level globals and mutates the page through  *)
(* element references.  It runs on the browser's single event thread: each *)
(* handler runs to its next await (or to its end) without interleaving, so *)
(* one action below is one such run-to-completion step.  The two fetches   *)
(* are the only awaits; each is split into the step that issues it and the *)
(* step that resumes after it.                                             *)
(***************************************************************************)
EXTENDS Integers, Sequences, FiniteSets, TLC

VARIABLES
    questions,        \* let questions = []           (quiz.js:18)
    currentIndex,     \* let currentIndex = 0         (quiz.js:19)
    score,            \* let score = 0                (quiz.js:20)
    startTime,        \* let startTime = null         (quiz.js:21): <<>> is null, <<t>> a timestamp
    breakdown,        \* let breakdown = []           (quiz.js:22)
    username,         \* let username = ""            (quiz.js:23): a sequence of characters
    introHidden,      \* introScreen.classList has "hidden"
    quizHidden,       \* quizScreen.classList has "hidden"
    resultHidden,     \* resultScreen.classList has "hidden"
    introError,       \* #intro-error textContent
    questionText,     \* #question-text textContent
    feedback,         \* #feedback textContent
    buttons,          \* the .option-btn children of #options-container: their labels, in order
    buttonsDisabled,  \* btn.disabled of those buttons (set for all of them together)
    resultView,       \* #final-score, #time-taken, #areas-for-improvement: <<>> before the first finishQuiz
    alertMsg,         \* the last alert(), without the err.message that ends it
    consoleErrors,    \* number of console.error calls
    pendingFetch,     \* fetch("/api/questions") calls awaited by a loadQuestions
    pendingScore,     \* fetch("/api/score") calls awaited by a finishQuiz
    scoreBody,        \* body of the last fetch("/api/score") issued: <<>> before the first
    now               \* Date.now(), in milliseconds

vars == <<questions, currentIndex, score, startTime, breakdown, username,
          introHidden, quizHidden, resultHidden, introError, questionText,
          feedback, buttons, buttonsDisabled, resultView, alertMsg,
          consoleErrors, pendingFetch, pendingScore, scoreBody, now>>

session == <<questions, currentIndex, score, startTime, breakdown, username>>

screens == <<introHidden, quizHidden, resultHidden>>

(***************************************************************************)
(* Bounds of the model.                                                    *)
(***************************************************************************)
MaxNameLen == 1

MaxQuestions == 2

MaxFetch == 2

MaxClock == 1

(***************************************************************************)
(* Inputs.                                                                 *)
(***************************************************************************)
MsPerSec == 1000

HalfSec == MsPerSec \div 2

Chars == {" ", "a"}

SeqsUpTo(S, n) == UNION {[1..k -> S] : k \in 0..n}

UsernameInputs == SeqsUpTo(Chars, MaxNameLen)

Q1 == [id |-> 1, question |-> "q1", options |-> <<"a", "b">>, correct_label |-> "a"]

Q2 == [id |-> 2, question |-> "q2", options |-> <<"a", "b">>, correct_label |-> "b"]

QNoOptions == [id |-> 3, question |-> "q3", correct_label |-> "a"]

QuestionPool == {Q1, Q2, QNoOptions}

\* The provider sends no question twice.  Q1 and Q2 differ only in which label
\* is correct, so of their two orders one is kept; the question without
\* options takes every position.
NoRepeat(s) == \A i, j \in DOMAIN s : i < j => (s[i] # s[j] /\ ~(s[i] = Q2 /\ s[j] = Q1))

QuestionLists == {s \in SeqsUpTo(QuestionPool, MaxQuestions) : NoRepeat(s)}

Responses ==
    {[rejected |-> TRUE, status |-> "", questions |-> <<>>]}
    \cup {[rejected |-> FALSE, status |-> "error", questions |-> <<>>]}
    \cup {[rejected |-> FALSE, status |-> "ok", questions |-> qs] : qs \in QuestionLists}

(***************************************************************************)
(* String.prototype.trim over sequences of characters.                     *)
(***************************************************************************)
RECURSIVE TrimStart(_)
TrimStart(s) ==
    IF s # <<>> /\ Head(s) = " " THEN TrimStart(Tail(s)) ELSE s

RECURSIVE TrimEnd(_)
TrimEnd(s) ==
    IF s # <<>> /\ s[Len(s)] = " " THEN TrimEnd(SubSeq(s, 1, Len(s) - 1)) ELSE s

Trim(s) == TrimEnd(TrimStart(s))

(***************************************************************************)
(* Which controls the user can reach.  The page template is not part of    *)
(* the script: the start button and the name field sit on the intro        *)
(* screen, the option buttons and the next button on the quiz screen, and  *)
(* a screen whose class list has "hidden" is not displayed.                *)
(***************************************************************************)
StartBtnClickable == ~introHidden

NextBtnClickable == ~quizHidden

OptionBtnClickable(i) == ~quizHidden /\ i \in DOMAIN buttons /\ ~buttonsDisabled

Init ==
    /\ questions = <<>>
    /\ currentIndex = 0
    /\ score = 0
    /\ startTime = <<>>
    /\ breakdown = <<>>
    /\ username = <<>>
    /\ introHidden = FALSE
    /\ quizHidden = TRUE
    /\ resultHidden = TRUE
    /\ introError = ""
    /\ questionText = ""
    /\ feedback = ""
    /\ buttons = <<>>
    /\ buttonsDisabled = FALSE
    /\ resultView = <<>>
    /\ alertMsg = ""
    /\ consoleErrors = 0
    /\ pendingFetch = 0
    /\ pendingScore = 0
    /\ scoreBody = <<>>
    /\ now = 0

(***************************************************************************)
(* showQuestion(), for the question list qs and index idx, as the page it  *)
(* leaves behind and whether it threw.  q = questions[currentIndex] is     *)
(* undefined past the end of the list, and then q.question throws after    *)
(* the feedback was cleared and before the old buttons are removed; a      *)
(* question without options throws at q.options.forEach, after the old     *)
(* buttons were removed.                                                   *)
(***************************************************************************)
\* optionsContainer.innerHTML = "" placed after the forEach that may throw
ShowQuestionKeepsButtons(qs, idx) ==
    IF idx + 1 \notin DOMAIN qs
    THEN [feedback |-> "", questionText |-> questionText, buttons |-> buttons,
          buttonsDisabled |-> buttonsDisabled, threw |-> TRUE]
    ELSE LET q == qs[idx + 1] IN
         IF "options" \notin DOMAIN q
         THEN [feedback |-> "", questionText |-> q.question, buttons |-> buttons,
               buttonsDisabled |-> buttonsDisabled, threw |-> TRUE]
         ELSE [feedback |-> "", questionText |-> q.question, buttons |-> q.options,
               buttonsDisabled |-> FALSE, threw |-> FALSE]

ShowQuestion(qs, idx) ==
    IF idx + 1 \notin DOMAIN qs
    THEN [feedback |-> "", questionText |-> questionText, buttons |-> buttons,
          buttonsDisabled |-> buttonsDisabled, threw |-> TRUE]
    ELSE LET q == qs[idx + 1] IN
         IF "options" \notin DOMAIN q
         THEN [feedback |-> "", questionText |-> q.question, buttons |-> <<>>,
               buttonsDisabled |-> FALSE, threw |-> TRUE]
         ELSE [feedback |-> "", questionText |-> q.question, buttons |-> q.options,
               buttonsDisabled |-> FALSE, threw |-> FALSE]

ApplyShow(r) ==
    /\ feedback' = r.feedback
    /\ questionText' = r.questionText
    /\ buttons' = r.buttons
    /\ buttonsDisabled' = r.buttonsDisabled

(***************************************************************************)
(* The start button's click handler, up to the await inside loadQuestions: *)
(* the name is stored, then checked, and a name that is not empty issues   *)
(* fetch("/api/questions").                                                *)
(***************************************************************************)
StartClick(input) ==
    /\ StartBtnClickable
    /\ username' = Trim(input)
    /\ IF Trim(input) = <<>>
       THEN /\ introError' = "Please enter your name to start."
            /\ UNCHANGED pendingFetch
       ELSE /\ pendingFetch < MaxFetch
            /\ introError' = ""
            /\ pendingFetch' = pendingFetch + 1
    /\ UNCHANGED <<questions, currentIndex, score, startTime, breakdown,
                   screens, questionText, feedback, buttons, buttonsDisabled,
                   resultView, alertMsg, consoleErrors, pendingScore, scoreBody, now>>

(***************************************************************************)
(* loadQuestions() from the point where its fetch and res.json() settle,   *)
(* with the response resp.  A rejected fetch and a status other than "ok"  *)
(* reach the catch before any assignment; an exception of showQuestion()   *)
(* reaches the same catch after the assignments and the screen switch.     *)
(***************************************************************************)
\* the data.status test left out
LoadFailsIgnoringStatus(resp) == resp.rejected

LoadFails(resp) == resp.rejected \/ resp.status # "ok"

\* the reset breakdown = [] left out
LoadQuestionsKeepsBreakdown(resp) ==
    /\ pendingFetch > 0
    /\ pendingFetch' = pendingFetch - 1
    /\ IF LoadFails(resp)
       THEN /\ alertMsg' = "Error loading questions: "
            /\ UNCHANGED <<questions, currentIndex, score, startTime, breakdown,
                           screens, questionText, feedback, buttons, buttonsDisabled>>
       ELSE LET r == ShowQuestion(resp.questions, 0) IN
            /\ questions' = resp.questions
            /\ currentIndex' = 0
            /\ score' = 0
            /\ startTime' = <<now>>
            /\ introHidden' = TRUE
            /\ quizHidden' = FALSE
            /\ ApplyShow(r)
            /\ alertMsg' = IF r.threw THEN "Error loading questions: " ELSE alertMsg
            /\ UNCHANGED <<breakdown, resultHidden>>
    /\ UNCHANGED <<username, introError, resultView, consoleErrors, pendingScore, scoreBody, now>>

LoadQuestions(resp) ==
    /\ pendingFetch > 0
    /\ pendingFetch' = pendingFetch - 1
    /\ IF LoadFails(resp)
       THEN /\ alertMsg' = "Error loading questions: "
            /\ UNCHANGED <<questions, currentIndex, score, startTime, breakdown,
                           screens, questionText, feedback, buttons, buttonsDisabled>>
       ELSE LET r == ShowQuestion(resp.questions, 0) IN
            /\ questions' = resp.questions
            /\ currentIndex' = 0
            /\ score' = 0
            /\ breakdown' = <<>>
            /\ startTime' = <<now>>
            /\ introHidden' = TRUE
            /\ quizHidden' = FALSE
            /\ ApplyShow(r)
            /\ alertMsg' = IF r.threw THEN "Error loading questions: " ELSE alertMsg
            /\ UNCHANGED resultHidden
    /\ UNCHANGED <<username, introError, resultView, consoleErrors, pendingScore, scoreBody, now>>

(***************************************************************************)
(* handleAnswer(clickedButton, selectedLabel).  With questions[currentIndex]*)
(* undefined, q.correct_label throws before anything is written.           *)
(***************************************************************************)
IsCorrect(selectedLabel, q) == selectedLabel = q.correct_label

AnswerRecord(q, selectedLabel) ==
    [questionId |-> q.id, question |-> q.question, selectedLabel |-> selectedLabel,
     correctLabel |-> q.correct_label, correct |-> IsCorrect(selectedLabel, q)]

\* score++ outside the if (correct) branch
NewScoreAlways(correct) == score + 1

NewScore(correct) == IF correct THEN score + 1 ELSE score

\* the closing allButtons.forEach(btn => (btn.disabled = true)) left out
HandleAnswerLeavesButtons(selectedLabel) ==
    IF currentIndex + 1 \notin DOMAIN questions
    THEN UNCHANGED <<breakdown, score, feedback, buttonsDisabled>>
    ELSE LET q == questions[currentIndex + 1] IN
         /\ breakdown' = Append(breakdown, AnswerRecord(q, selectedLabel))
         /\ score' = NewScore(IsCorrect(selectedLabel, q))
         /\ feedback' = IF IsCorrect(selectedLabel, q) THEN "Correct!" ELSE "Incorrect."
         /\ UNCHANGED buttonsDisabled

HandleAnswer(selectedLabel) ==
    IF currentIndex + 1 \notin DOMAIN questions
    THEN UNCHANGED <<breakdown, score, feedback, buttonsDisabled>>
    ELSE LET q == questions[currentIndex + 1] IN
         /\ breakdown' = Append(breakdown, AnswerRecord(q, selectedLabel))
         /\ score' = NewScore(IsCorrect(selectedLabel, q))
         /\ feedback' = IF IsCorrect(selectedLabel, q) THEN "Correct!" ELSE "Incorrect."
         /\ buttonsDisabled' = TRUE

(***************************************************************************)
(* btn.onclick of the i-th option button: a disabled button fires no click.*)
(***************************************************************************)
AnswerClick(i) ==
    /\ OptionBtnClickable(i)
    /\ HandleAnswer(buttons[i])
    /\ UNCHANGED <<questions, currentIndex, startTime, username, screens, introError,
                   questionText, buttons, resultView, alertMsg, consoleErrors,
                   pendingFetch, pendingScore, scoreBody, now>>

(***************************************************************************)
(* finishQuiz(), up to its await: the summary is written to the result     *)
(* screen and fetch("/api/score") is issued with the body built from the   *)
(* globals at that moment.                                                 *)
(***************************************************************************)
ToNumber(t) == IF t = <<>> THEN 0 ELSE t[1]

\* the subtraction written as startTime - endTime
TimeTakenSecReversed(endTime, start) == (ToNumber(start) - endTime + HalfSec) \div MsPerSec

\* Math.round(ms / 1000): the nearest integer, halves towards +Infinity
TimeTakenSec(endTime, start) == (endTime - ToNumber(start) + HalfSec) \div MsPerSec

\* ((correct / total) * 100).toFixed(1), as a count of tenths; 0/0 is NaN and n/0 Infinity
Percent(correct, total) ==
    IF total = 0
    THEN [text |-> IF correct = 0 THEN "NaN" ELSE "Infinity", tenths |-> 0]
    ELSE [text |-> "number", tenths |-> (2 * 10 * 100 * correct + total) \div (2 * total)]

\* the filter's negation left out
MissedKeepsCorrect(records) == SelectSeq(records, LAMBDA b : b.correct)

\* breakdown.filter(b => !b.correct)
Missed(records) == SelectSeq(records, LAMBDA b : ~b.correct)

\* a percentage that throws on a division by zero, after the screens were switched
FinishQuizThrowsOnZero ==
    LET timeTakenSec == TimeTakenSec(now, startTime) IN
    /\ quizHidden' = TRUE
    /\ resultHidden' = FALSE
    /\ IF Len(questions) = 0
       THEN UNCHANGED <<resultView, scoreBody, pendingScore>>
       ELSE /\ resultView' = <<[username |-> username, score |-> score,
                                total |-> Len(questions),
                                percent |-> Percent(score, Len(questions)),
                                timeTaken |-> timeTakenSec, missed |-> Missed(breakdown)]>>
            /\ scoreBody' = <<[username |-> username, correct |-> score,
                               total |-> Len(questions), timeTaken |-> timeTakenSec,
                               breakdown |-> breakdown]>>
            /\ pendingScore' = pendingScore + 1
    /\ UNCHANGED <<currentIndex, introHidden, questionText, feedback, buttons, buttonsDisabled>>

FinishQuiz ==
    LET timeTakenSec == TimeTakenSec(now, startTime) IN
    /\ quizHidden' = TRUE
    /\ resultHidden' = FALSE
    /\ resultView' = <<[username |-> username, score |-> score, total |-> Len(questions),
                        percent |-> Percent(score, Len(questions)),
                        timeTaken |-> timeTakenSec, missed |-> Missed(breakdown)]>>
    /\ scoreBody' = <<[username |-> username, correct |-> score,
                       total |-> Len(questions), timeTaken |-> timeTakenSec,
                       breakdown |-> breakdown]>>
    /\ pendingScore' = pendingScore + 1
    /\ UNCHANGED <<currentIndex, introHidden, questionText, feedback, buttons, buttonsDisabled>>

(***************************************************************************)
(* The next button's click handler.  An exception of showQuestion() here   *)
(* is uncaught: the index stays incremented.                               *)
(***************************************************************************)
NextClick ==
    /\ NextBtnClickable
    /\ IF currentIndex < Len(questions) - 1
       THEN LET r == ShowQuestion(questions, currentIndex + 1) IN
            /\ currentIndex' = currentIndex + 1
            /\ ApplyShow(r)
            /\ UNCHANGED <<screens, resultView, pendingScore, scoreBody>>
       ELSE FinishQuiz
    /\ UNCHANGED <<questions, score, startTime, breakdown, username, introError,
                   alertMsg, consoleErrors, pendingFetch, now>>

(***************************************************************************)
(* finishQuiz() after its await: one outstanding POST settles.  A rejected *)
(* one reaches the catch, which writes to the console.                     *)
(***************************************************************************)
SaveScoreDone ==
    /\ pendingScore > 0
    /\ pendingScore' = pendingScore - 1
    /\ UNCHANGED <<session, screens, introError, questionText, feedback, buttons,
                   buttonsDisabled, resultView, alertMsg, consoleErrors, pendingFetch,
                   scoreBody, now>>

\* the catch reporting with alert() as loadQuestions does
SaveScoreFailedAlerts ==
    /\ pendingScore > 0
    /\ pendingScore' = pendingScore - 1
    /\ alertMsg' = "Failed to save score"
    /\ UNCHANGED <<session, screens, introError, questionText, feedback, buttons,
                   buttonsDisabled, resultView, consoleErrors, pendingFetch, scoreBody, now>>

SaveScoreFailed ==
    /\ pendingScore > 0
    /\ pendingScore' = pendingScore - 1
    /\ consoleErrors' = consoleErrors + 1
    /\ UNCHANGED <<session, screens, introError, questionText, feedback, buttons,
                   buttonsDisabled, resultView, alertMsg, pendingFetch, scoreBody, now>>

(***************************************************************************)
(* Date.now() advances between events.                                     *)
(***************************************************************************)
Tick ==
    /\ now < MaxClock * HalfSec
    /\ now' = now + HalfSec
    /\ UNCHANGED <<session, screens, introError, questionText, feedback, buttons,
                   buttonsDisabled, resultView, alertMsg, consoleErrors,
                   pendingFetch, pendingScore, scoreBody>>

Next ==
    \/ \E input \in UsernameInputs : StartClick(input)
    \/ \E resp \in Responses : LoadQuestions(resp)
    \/ \E i \in 1..Len(buttons) : AnswerClick(i)
    \/ NextClick
    \/ SaveScoreDone
    \/ SaveScoreFailed
    \/ Tick

Spec == Init /\ [][Next]_vars

(***************************************************************************)
(* The states of the session controller, read off the page: which screen   *)
(* is displayed, whether a question fetch is outstanding, and whether the  *)
(* displayed question still takes an answer.                               *)
(***************************************************************************)
Idle == ~introHidden /\ pendingFetch = 0

Loading == ~introHidden /\ pendingFetch > 0

\* the current question is on the quiz screen with its option buttons
QuestionShown ==
    /\ ~quizHidden
    /\ currentIndex + 1 \in DOMAIN questions
    /\ "options" \in DOMAIN questions[currentIndex + 1]
    /\ buttons = questions[currentIndex + 1].options
    /\ questionText = questions[currentIndex + 1].question

Active == QuestionShown /\ ~buttonsDisabled /\ feedback = ""

Answered == QuestionShown /\ buttonsDisabled /\ feedback # ""

Finished == quizHidden /\ ~resultHidden

Range(s) == {s[i] : i \in DOMAIN s}

Abs(n) == IF n < 0 THEN -n ELSE n

\* the option labels of questions[currentIndex]: none when there is no such
\* question or it has no options
CurrentOptionLabels ==
    IF currentIndex + 1 \in DOMAIN questions
       /\ "options" \in DOMAIN questions[currentIndex + 1]
    THEN Range(questions[currentIndex + 1].options)
    ELSE {}

\* every question was answered once, in the order of the question list
AnsweredInOrder ==
    /\ Len(breakdown) = Len(questions)
    /\ \A i \in DOMAIN questions : breakdown[i].questionId = questions[i].id

SelectedLabels == [i \in DOMAIN breakdown |-> breakdown[i].selectedLabel]

\* the ids of the first n questions whose recorded label is not the correct
\* one, in question order
RECURSIVE WronglyAnswered(_)
WronglyAnswered(n) ==
    IF n = 0 THEN <<>>
    ELSE IF breakdown[n].selectedLabel # questions[n].correct_label
         THEN Append(WronglyAnswered(n - 1), questions[n].id)
         ELSE WronglyAnswered(n - 1)

(***************************************************************************)
(* C1: in every reachable state score is the number of AnswerRecords of    *)
(* breakdown whose correct field is true.                                  *)
(***************************************************************************)
C1_ScoreCountsCorrect ==
    score = Cardinality({i \in DOMAIN breakdown : breakdown[i].correct})

C1_Witness ==
    /\ Len(breakdown) = 2
    /\ breakdown[1].correct
    /\ ~breakdown[2].correct
    /\ score = 1

(***************************************************************************)
(* C2: a click on the next button in Active, Idle, Loading or Finished     *)
(* changes neither currentIndex nor the screen shown and runs no           *)
(* finishQuiz.  The handler has no such test: in Active it moves to the    *)
(* next question or finishes.                                              *)
(***************************************************************************)
C2_NextOnlyWhenAnswered ==
    [][(NextClick /\ (Active \/ Idle \/ Loading \/ Finished))
          => UNCHANGED <<currentIndex, screens, resultView, pendingScore>>]_vars

(***************************************************************************)
(* C3: a start click whose name is empty after trimming changes no field   *)
(* of the session and issues no fetch.  The handler stores the trimmed     *)
(* name in username before it tests it.                                    *)
(***************************************************************************)
C3_EmptyNameChangesNothing ==
    [][(\E input \in UsernameInputs : Trim(input) = <<>> /\ StartClick(input))
          => UNCHANGED <<session, pendingFetch>>]_vars

(***************************************************************************)
(* C4: when the fetch is rejected or the status is not "ok", the load      *)
(* error is alerted, questions, currentIndex, score, breakdown and         *)
(* startTime are unchanged, the same screens are shown as before, and a    *)
(* session on the intro screen with no other fetch outstanding is Idle.    *)
(***************************************************************************)
C4_FailedLoadKeepsSession ==
    [][(\E resp \in Responses :
            /\ resp.rejected \/ resp.status # "ok"
            /\ LoadQuestions(resp))
          => /\ alertMsg' = "Error loading questions: "
             /\ UNCHANGED <<questions, currentIndex, score, breakdown, startTime, screens>>
             /\ (~introHidden /\ pendingFetch' = 0 => Idle')]_vars

C4_Witness ==
    /\ alertMsg = "Error loading questions: "
    /\ Idle
    /\ quizHidden
    /\ startTime = <<>>
    /\ username # <<>>

(***************************************************************************)
(* C5: whenever loadQuestions alerts "Error loading questions", questions, *)
(* currentIndex, score, breakdown and startTime are as before and the quiz *)
(* screen has not been revealed.  An exception of showQuestion() is        *)
(* alerted after the assignments and the screen switch.                    *)
(***************************************************************************)
C5_AlertedLoadChangesNothing ==
    [][(\E resp \in Responses :
            /\ LoadFails(resp) \/ ShowQuestion(resp.questions, 0).threw
            /\ LoadQuestions(resp))
          => UNCHANGED <<questions, currentIndex, score, breakdown, startTime, quizHidden>>]_vars

(***************************************************************************)
(* C6: a click that hands handleAnswer a label that is not an option label *)
(* of the current question adds no AnswerRecord, leaves score alone and    *)
(* makes no transition.                                                    *)
(***************************************************************************)
C6_ForeignLabelRejected ==
    [][(\E i \in DOMAIN buttons :
            /\ buttons[i] \notin CurrentOptionLabels
            /\ AnswerClick(i))
          => UNCHANGED <<breakdown, score, currentIndex, feedback, buttonsDisabled, screens>>]_vars

C6_Witness ==
    /\ \E i \in DOMAIN buttons :
          OptionBtnClickable(i) /\ buttons[i] \notin CurrentOptionLabels
    /\ breakdown = <<>>
    /\ score = 0

(***************************************************************************)
(* C7: when every question was answered once and in order, the summary of  *)
(* finishQuiz shows score = the number of questions whose selected label   *)
(* is the correct label, missed = the records with correct = false in      *)
(* question order, and percent = score / total * 100 to one decimal; for   *)
(* the questions with correct labels (a, b) the answers (a, b) give 2, no  *)
(* missed record and 100.0, the answers (b, a) give 0, both and 0.0.       *)
(***************************************************************************)
C7_FinishReport ==
    (Finished /\ questions # <<>> /\ AnsweredInOrder) =>
        LET r == resultView[1]
            total == Len(questions)
            right == Cardinality({i \in DOMAIN questions :
                        breakdown[i].selectedLabel = questions[i].correct_label})
        IN  /\ r.score = right
            /\ r.total = total
            /\ Len(r.missed) = Len(WronglyAnswered(total))
            /\ \A k \in DOMAIN r.missed :
                  /\ r.missed[k].questionId = WronglyAnswered(total)[k]
                  /\ r.missed[k] \in Range(breakdown)
                  /\ ~r.missed[k].correct
            /\ r.percent.text = "number"
            /\ 2 * Abs(r.percent.tenths * total - 10 * 100 * right) <= total
            /\ (questions = <<Q1, Q2>> /\ SelectedLabels = <<"a", "b">>
                  => r.score = 2 /\ r.missed = <<>> /\ r.percent.tenths = 10 * 100)
            /\ (questions = <<Q1, Q2>> /\ SelectedLabels = <<"b", "a">>
                  => /\ r.score = 0
                     /\ r.missed = breakdown
                     /\ r.percent.tenths = 0)

C7_Witness ==
    /\ Finished
    /\ questions = <<Q1, Q2>>
    /\ AnsweredInOrder
    /\ SelectedLabels = <<"b", "a">>
    /\ resultView[1].score = 0
    /\ Len(resultView[1].missed) = 2

(***************************************************************************)
(* C8: a load that returns status "ok" and no question leads at once to    *)
(* Finished with the summary for total = 0 shown and no load error         *)
(* alerted.  showQuestion() throws on the empty list: the error is alerted *)
(* and the quiz screen is left displayed with no question.                 *)
(***************************************************************************)
C8_EmptyLoadFinishes ==
    [][(\E resp \in Responses :
            /\ ~resp.rejected /\ resp.status = "ok" /\ resp.questions = <<>>
            /\ LoadQuestions(resp))
          => /\ Finished'
             /\ alertMsg' = alertMsg
             /\ resultView' # <<>>
             /\ resultView'[1].total = 0]_vars

(***************************************************************************)
(* C9: with no question, finishQuiz runs to its await: the result screen   *)
(* is displayed with a summary for total = 0 and the score is posted.      *)
(***************************************************************************)
C9_FinishWithoutQuestions ==
    [][(NextClick /\ Len(questions) = 0)
          => /\ Finished'
             /\ resultView' # <<>>
             /\ resultView'[1].total = 0
             /\ resultView'[1].score = score
             /\ pendingScore' = pendingScore + 1
             /\ scoreBody' # <<>>
             /\ scoreBody'[1].total = 0]_vars

C9_Witness ==
    /\ Finished
    /\ questions = <<>>
    /\ resultView # <<>>
    /\ resultView[1].total = 0
    /\ resultView[1].percent.text = "NaN"
    /\ pendingScore > 0

(***************************************************************************)
(* C10: a failed score submission is written to the console and nothing    *)
(* else: the summary, score, breakdown, questions, currentIndex, the       *)
(* screens shown and the alert are unchanged, so a Finished session stays  *)
(* Finished.                                                               *)
(***************************************************************************)
C10_SubmissionFailureOnlyLogged ==
    [][SaveScoreFailed
          => /\ consoleErrors' = consoleErrors + 1
             /\ UNCHANGED <<resultView, session, screens, alertMsg, introError,
                            questionText, feedback, buttons, buttonsDisabled>>
             /\ (Finished => Finished')]_vars

C10_Witness ==
    /\ consoleErrors > 0
    /\ Finished
    /\ resultView # <<>>
    /\ pendingScore = 0

(***************************************************************************)
(* C11: after any load error alerted by loadQuestions the intro screen is  *)
(* displayed, so that a further start click is possible, and a load that   *)
(* then succeeds begins an attempt in Active with index 0, score 0 and no  *)
(* AnswerRecord.  A load alerted because showQuestion() threw has hidden   *)
(* the intro screen, and the start button with it.                         *)
(***************************************************************************)
C11_LoadErrorRetriable ==
    [][\A resp \in Responses : LoadQuestions(resp) =>
          /\ (LoadFails(resp) \/ ShowQuestion(resp.questions, 0).threw)
                => (StartBtnClickable' /\ (Idle' \/ Loading'))
          /\ (~LoadFails(resp) /\ ~ShowQuestion(resp.questions, 0).threw)
                => (Active' /\ currentIndex' = 0 /\ score' = 0 /\ breakdown' = <<>>)]_vars

(***************************************************************************)
(* C12: in no reachable state is a question fetch outstanding together     *)
(* with a score submission.  A second start click while the first fetch is *)
(* outstanding leaves a fetch that outlives the attempt of the first.      *)
(***************************************************************************)
C12_FetchesNeverOverlap == ~(pendingFetch > 0 /\ pendingScore > 0)

(***************************************************************************)
(* C13: whenever the quiz screen is displayed, 0 <= currentIndex <         *)
(* questions.length.  A load of an empty list displays the quiz screen     *)
(* with currentIndex = 0 = questions.length.                               *)
(***************************************************************************)
C13_IndexValidWhileActive ==
    ~quizHidden => (0 <= currentIndex /\ currentIndex < Len(questions))

(***************************************************************************)
(* C14: in every reachable state breakdown holds at most as many           *)
(* AnswerRecords as questions holds questions, also after a later fetch    *)
(* replaced the question list.                                             *)
(***************************************************************************)
C14_RecordsWithinQuestions == Len(breakdown) <= Len(questions)

\* a second load replaced a finished two-question attempt by a shorter list,
\* whose question has been answered
C14_Witness ==
    /\ ~quizHidden
    /\ resultView # <<>>
    /\ resultView[1].total = 2
    /\ Len(questions) = 1
    /\ Len(breakdown) = 1

(***************************************************************************)
(* C15: an answer click adds a record only in Active; an answer click on a *)
(* question that already has its AnswerRecord adds no                      *)
(* record and leaves score alone, no two records of breakdown are for the  *)
(* same question, and answer and next clicks leave the records already in  *)
(* breakdown as they are.                                                  *)
(***************************************************************************)
\* questions[currentIndex] has an AnswerRecord
CurrentAnswered ==
    /\ currentIndex + 1 \in DOMAIN questions
    /\ \E k \in DOMAIN breakdown :
          breakdown[k].questionId = questions[currentIndex + 1].id

IsPrefix(s, t) == Len(s) <= Len(t) /\ SubSeq(t, 1, Len(s)) = s

C15_AnswerLocked ==
    [][/\ (breakdown' # breakdown /\ \E i \in DOMAIN buttons : AnswerClick(i))
             => Active
       /\ (CurrentAnswered /\ \E i \in DOMAIN buttons : AnswerClick(i))
             => UNCHANGED <<breakdown, score>>
       /\ \A j, k \in DOMAIN breakdown' :
             j # k => breakdown'[j].questionId # breakdown'[k].questionId
       /\ ((\E i \in DOMAIN buttons : AnswerClick(i)) \/ NextClick)
             => IsPrefix(breakdown, breakdown')]_vars

\* the second question is on display, answered, after the first was answered
C15_Witness ==
    /\ Answered
    /\ CurrentAnswered
    /\ currentIndex = 1
    /\ Len(breakdown) = 2
    /\ buttons # <<>>

(***************************************************************************)
(* C16: the elapsed time finishQuiz reports is not negative and is the     *)
(* clock difference, rounded to whole seconds, between the moment the      *)
(* attempt's load completed and the moment finishQuiz runs; startTime is   *)
(* the clock at the last completed load and never ahead of the clock.      *)
(***************************************************************************)
C16_ElapsedTime ==
    [][/\ (NextClick /\ ~(currentIndex < Len(questions) - 1)) =>
             /\ startTime # <<>>
             /\ resultView' # <<>>
             /\ LET t == resultView'[1].timeTaken
                    d == now - startTime[1]
                IN  /\ t >= 0
                    /\ 2 * d - MsPerSec < 2 * MsPerSec * t
                    /\ 2 * MsPerSec * t <= 2 * d + MsPerSec
                    /\ scoreBody'[1].timeTaken = t
       /\ \A resp \in Responses :
             (LoadQuestions(resp) /\ ~resp.rejected /\ resp.status = "ok")
                => startTime' = <<now>>
       /\ startTime' # <<>> => startTime'[1] <= now']_vars

\* an attempt finished half a second after its load, in a run with a second
\* start whose fetch is still outstanding
C16_Witness ==
    /\ Finished
    /\ startTime = <<0>>
    /\ now = HalfSec
    /\ resultView[1].timeTaken = 1
    /\ pendingFetch > 0

(***************************************************************************)
(* C17: Finished is terminal: once the results are shown, no step other    *)
(* than a new start click leaves Finished or changes the finished          *)
(* attempt's questions, position, score or records; in particular a fetch  *)
(* still in flight does not reset the session or reopen the quiz screen.   *)
(***************************************************************************)
C17_FinishedTerminal ==
    [][(Finished /\ ~(\E input \in UsernameInputs : StartClick(input)))
          => /\ Finished'
             /\ UNCHANGED <<questions, currentIndex, score, breakdown>>]_vars

(***************************************************************************)
(* C18: start requests are serialized: at most one question fetch is in    *)
(* flight at any time.                                                     *)
(***************************************************************************)
C18_OneFetchInFlight == pendingFetch <= 1

(***************************************************************************)
(* C19: a step that issues the score POST issues exactly one, with the     *)
(* results shown, and its body is consistent with the attempt: total is    *)
(* the number of questions, correct is the number of correct records,      *)
(* breakdown holds one record per question in question order, and username *)
(* is not empty.                                                           *)
(***************************************************************************)
C19_SubmissionConsistent ==
    [][pendingScore' > pendingScore =>
          /\ pendingScore' = pendingScore + 1
          /\ Finished'
          /\ resultView' # <<>>
          /\ scoreBody' # <<>>
          /\ LET body == scoreBody'[1] IN
                /\ body.total = Len(questions)
                /\ body.correct =
                      Cardinality({k \in DOMAIN body.breakdown : body.breakdown[k].correct})
                /\ Len(body.breakdown) = body.total
                /\ \A k \in DOMAIN body.breakdown :
                      k \in DOMAIN questions
                         /\ body.breakdown[k].questionId = questions[k].id
                /\ body.username # <<>>]_vars

====
